---------------------------- MODULE Spec2Model ----------------------------
(***************************************************************************)
(* Model of src/src/evaluation_metrics_hierarchical_clustering.py:         *)
(*   calculate_wcss, compute_metrics and the unpacking done by             *)
(*   plot_hierarchical_clustering_evaluation_curves.                       *)
(*                                                                         *)
(* Numbers.  Python floats are modelled by exact rationals <<num, den>>    *)
(* in lowest terms with den > 0; rounding is not modelled.                 *)
(*                                                                         *)
(* Library calls (scikit-learn) are not part of the repository.  Each is   *)
(* modelled at its call site by its documented contract:                   *)
(*   kneighbors_graph(X, 10, include_self=False) raises ValueError unless  *)
(*     n_samples > n_neighbors;                                            *)
(*   AgglomerativeClustering(n_clusters=k).fit_predict raises ValueError   *)
(*     when k > n_samples and otherwise sets labels_ to an assignment with *)
(*     exactly k distinct labels 0..k-1;                                   *)
(*   silhouette_score, calinski_harabasz_score and davies_bouldin_score    *)
(*     raise ValueError unless 1 < n_labels < n_samples.                   *)
(* Any call inside a try block may in addition raise an unexpected         *)
(* exception (MemoryError, FloatingPointError, ...).                       *)
(***************************************************************************)
EXTENDS Integers, Sequences, FiniteSets

VARIABLES
    dataframe,                 \* the caller's N x 1 table (sequence of rows)
    cluster_number,            \* the caller's sequence of cluster counts
    knn_graph,                 \* connectivity constraint (line 45)
    dataframe_standardized,    \* line 53
    pos,                       \* position of the for loop in cluster_number
    labels_,                   \* clustering.labels_ of the current iteration
    wcss,                      \* line 47
    silhouette_scores,         \* line 48
    calinski_harabasz_scores,  \* line 49
    davies_bouldin_scores,     \* line 50
    stdout,                    \* lines printed so far
    exc,                       \* exception in flight
    pc,                        \* position in the code
    ret,                       \* value returned by the function under way
    rows,                      \* what each axis of the figure plots
    fits,                      \* history: every fit_predict call, in order
    causes,                    \* history: cause of each printed line
    knn_calls                  \* history: number of kneighbors_graph calls

vars == <<dataframe, cluster_number, knn_graph, dataframe_standardized, pos,
          labels_, wcss, silhouette_scores, calinski_harabasz_scores,
          davies_bouldin_scores, stdout, exc, pc, ret, rows, fits, causes,
          knn_calls>>

-----------------------------------------------------------------------------
(* Bounds of the model *)

\* longest swept sequence of cluster counts
MaxSweep == 2
\* sample sizes are n_neighbors .. n_neighbors + MaxExtraSamples
MaxExtraSamples == 1
\* unexpected exceptions raised in one sweep
MaxUnexpected == 2
\* calculate_wcss alone: at most MaxPoints points
MaxPoints == 3
\* calculate_wcss alone: labels are 0..MaxLabel
MaxLabel == 1

\* n_neighbors passed to kneighbors_graph
N_NEIGHBORS == 10

-----------------------------------------------------------------------------
(* Exact rational arithmetic *)

Abs(a) == IF a < 0 THEN -a ELSE a

RECURSIVE Gcd(_, _)
Gcd(a, b) == IF b = 0 THEN a ELSE Gcd(b, a % b)

Rat(n, d) == LET g == Gcd(Abs(n), d) IN <<n \div g, d \div g>>

Zero == <<0, 1>>

RAdd(p, q) == Rat(p[1] * q[2] + q[1] * p[2], p[2] * q[2])

RSub(p, q) == Rat(p[1] * q[2] - q[1] * p[2], p[2] * q[2])

RMul(p, q) == Rat(p[1] * q[1], p[2] * q[2])

\* sum of the first n entries of a sequence of rationals (used to state
\* properties only)
RECURSIVE RSum(_, _)
RSum(s, n) == IF n = 0 THEN Zero ELSE RAdd(RSum(s, n - 1), s[n])

\* sum of the first n entries of a sequence of integers
RECURSIVE ISum(_, _)
ISum(s, n) == IF n = 0 THEN 0 ELSE ISum(s, n - 1) + s[n]

-----------------------------------------------------------------------------
(* calculate_wcss (lines 11-28) *)

\* np.unique(labels)
Unique(labels) == {labels[j] : j \in DOMAIN labels}

\* X[labels == label]: those of the first n rows of X whose label is label,
\* in row order
RECURSIVE MaskedRows(_, _, _, _)
MaskedRows(X, labels, label, n) ==
    IF n = 0 THEN <<>>
    ELSE LET rest == MaskedRows(X, labels, label, n - 1)
         IN  IF labels[n] = label THEN Append(rest, X[n]) ELSE rest

ClusterPoints(X, labels, label) == MaskedRows(X, labels, label, Len(X))

\* sum of column d over the first n rows
RECURSIVE ColumnSum(_, _, _)
ColumnSum(points, d, n) ==
    IF n = 0 THEN 0 ELSE ColumnSum(points, d, n - 1) + points[n][d]

\* points.mean(axis=0): one rational per column, for the first D columns
RECURSIVE ColumnMeans(_, _)
ColumnMeans(points, D) ==
    IF D = 0 THEN <<>>
    ELSE Append(ColumnMeans(points, D - 1),
                Rat(ColumnSum(points, D, Len(points)), Len(points)))

MeanAxis0(points) == ColumnMeans(points, Len(points[1]))

\* the squares of (point - centroid), summed over the first D columns
RECURSIVE RowSquares(_, _, _)
RowSquares(point, centroid, D) ==
    IF D = 0 THEN Zero
    ELSE LET dev == RSub(<<point[D], 1>>, centroid[D])
         IN  RAdd(RowSquares(point, centroid, D - 1), RMul(dev, dev))

\* ((points - centroid) ** 2).sum() over the first n rows
RECURSIVE SquaresSum(_, _, _)
SquaresSum(points, centroid, n) ==
    IF n = 0 THEN Zero
    ELSE RAdd(SquaresSum(points, centroid, n - 1),
              RowSquares(points[n], centroid, Len(centroid)))

SquaredDeviationSum(points, centroid) ==
    SquaresSum(points, centroid, Len(points))

\* the same with the centroid of all of X in place of the cluster's
WcssTermGlobalCentroid(X, labels, label) ==
    LET cluster_points == ClusterPoints(X, labels, label)
        centroid == MeanAxis0(X)
    IN  SquaredDeviationSum(cluster_points, centroid)

\* one pass of the loop body (lines 25-27): the term added for one label
WcssTerm(X, labels, label) ==
    LET cluster_points == ClusterPoints(X, labels, label)
        centroid == MeanAxis0(cluster_points)
    IN  SquaredDeviationSum(cluster_points, centroid)

\* the for loop over np.unique(labels), in ascending order of the labels
RECURSIVE WcssLoop(_, _, _, _)
WcssLoop(X, labels, todo, acc) ==
    IF todo = {} THEN acc
    ELSE LET label == CHOOSE l \in todo : \A m \in todo : l <= m
         IN  WcssLoop(X, labels, todo \ {label},
                      RAdd(acc, WcssTerm(X, labels, label)))

calculate_wcss(X, labels) == WcssLoop(X, labels, Unique(labels), Zero)

-----------------------------------------------------------------------------
(* Values held by the result lists *)

\* np.nan
NaN == [nan |-> TRUE, metric |-> "", score |-> Zero]

\* a float computed by metric m; the metric name records where it came from
Val(m, s) == [nan |-> FALSE, metric |-> m, score |-> s]

\* a line that leaves the count out
LineNoPoint(m, k) == [metric |-> m, point |-> 0]

\* the text of one printed line: f"{metric} score omitted for point {i}"
Line(m, k) == [metric |-> m, point |-> k]

Metrics == {"WCSS", "Davies-Bouldin", "Silhouette", "Calinski-Harabasz"}

-----------------------------------------------------------------------------
(* Library calls, by contract *)

NoGraph == [n_samples |-> 0, n_neighbors |-> 0]

\* kneighbors_graph(dataframe, 10, include_self=False) raises ValueError
\* unless n_neighbors < n_samples
KneighborsGraphRaisesInclSelf(n_samples) == ~(N_NEIGHBORS <= n_samples)

KneighborsGraphRaises(n_samples) == ~(N_NEIGHBORS < n_samples)

\* StandardScaler().fit_transform(dataframe) for one column:
\* z_i = (x_i - mean) / std, and z_i = 0 for a column of zero variance.
\* The model keeps z_i in units of 1 / (N * std), where it is the integer
\* N * x_i - sum(x); for zero variance this is 0 as well.
fit_transform(X) ==
    LET n == Len(X)
        s == ColumnSum(X, 1, n)
    IN  [j \in 1..n |-> <<n * X[j][1] - s>>]

\* AgglomerativeClustering(n_clusters=k, ...).fit_predict raises when more
\* clusters than samples are asked for
FitPredictRaises(k, n_samples) == k > n_samples

\* Otherwise labels_ has exactly k distinct labels 0..k-1.  Two such
\* assignments stand for the library's choice: round robin, and k-1
\* singletons followed by one cluster with the rest.
FitPredictLabels(k, n_samples) ==
    { [j \in 1..n_samples |-> (j - 1) % k],
      [j \in 1..n_samples |-> IF j < k THEN j - 1 ELSE k - 1] }

\* sklearn's check_number_of_labels, applied by all three validity scores
LabelsUndefined(labels) ==
    LET n_labels == Cardinality(Unique(labels))
    IN  ~(1 < n_labels /\ n_labels < Len(labels))

\* The value a validity score returns is a function of the data and the
\* labels that the model does not interpret; it is stood for by a number
\* computed from the labels.
LibScore(X, labels) ==
    <<ISum([j \in 1..Len(labels) |-> (labels[j] + 1) * j], Len(labels)), 1>>

\* what metric m computes for (X, labels) when it does not raise
Score(m, X, labels) ==
    IF m = "WCSS" THEN Val(m, calculate_wcss(X, labels))
    ELSE Val(m, LibScore(X, labels))

-----------------------------------------------------------------------------
(* compute_metrics (lines 31-93) *)

\* the item the for loop of line 55 takes at its p-th iteration
RECURSIVE SortedInsert(_, _)
SortedInsert(s, x) ==
    IF s = <<>> THEN <<x>>
    ELSE IF x <= Head(s) THEN <<x>> \o s
    ELSE <<Head(s)>> \o SortedInsert(Tail(s), x)

RECURSIVE Sorted(_)
Sorted(s) == IF s = <<>> THEN <<>>
             ELSE SortedInsert(Sorted(Tail(s)), Head(s))

LoopItemSorted(counts, p) == Sorted(counts)[p]

LoopItem(counts, p) == counts[p]

i == LoopItem(cluster_number, pos)

n_samples == Len(dataframe)

\* line 45
KneighborsGraph ==
    /\ pc = "knn"
    /\ knn_calls' = knn_calls + 1
    /\ IF KneighborsGraphRaises(n_samples)
       THEN /\ exc' = "InsufficientSamples"
            /\ pc' = "raised"
            /\ UNCHANGED knn_graph
       ELSE /\ knn_graph' = [n_samples |-> n_samples,
                             n_neighbors |-> N_NEIGHBORS]
            /\ pc' = "scale"
            /\ UNCHANGED exc
    /\ UNCHANGED <<dataframe, cluster_number, dataframe_standardized, pos,
                   labels_, wcss, silhouette_scores, calinski_harabasz_scores,
                   davies_bouldin_scores, stdout, ret, rows, fits, causes>>

\* lines 47-53
Standardize ==
    /\ pc = "scale"
    /\ wcss' = <<>>
    /\ silhouette_scores' = <<>>
    /\ calinski_harabasz_scores' = <<>>
    /\ davies_bouldin_scores' = <<>>
    /\ dataframe_standardized' = fit_transform(dataframe)
    /\ pos' = 1
    /\ pc' = "for"
    /\ UNCHANGED <<dataframe, cluster_number, knn_graph, labels_, stdout, exc,
                   ret, rows, fits, causes, knn_calls>>

\* lines 55-59: the next item of cluster_number and its clustering, which
\* no try block encloses
FitPredict ==
    /\ pc = "for"
    /\ pos <= Len(cluster_number)
    /\ IF FitPredictRaises(i, n_samples)
       THEN /\ fits' = Append(fits, [n_clusters |-> i, raised |-> TRUE,
                                     labels |-> <<>>])
            /\ exc' = "ClusteringFailed"
            /\ pc' = "raised"
            /\ UNCHANGED labels_
       ELSE \E l \in FitPredictLabels(i, n_samples) :
            /\ fits' = Append(fits, [n_clusters |-> i, raised |-> FALSE,
                                     labels |-> l])
            /\ labels_' = l
            /\ pc' = "wcss_try"
            /\ UNCHANGED exc
    /\ UNCHANGED <<dataframe, cluster_number, knn_graph,
                   dataframe_standardized, pos, wcss, silhouette_scores,
                   calinski_harabasz_scores, davies_bouldin_scores, stdout,
                   ret, rows, causes, knn_calls>>

\* unexpected exceptions raised so far in this sweep
Unexpected ==
    Cardinality({a \in DOMAIN causes :
                    causes[a].cause = "UnexpectedComputationFailure"})

\* A try body returns or raises.  A validity score raises MetricUndefined
\* when the labels fail the library's check, which comes before any
\* computation; any try body may raise something unexpected, at most
\* MaxUnexpected times in one sweep.
Outcomes(m) ==
    (IF m # "WCSS" /\ LabelsUndefined(labels_)
     THEN {"MetricUndefined"} ELSE {"ok"})
    \cup
    (IF Unexpected < MaxUnexpected
     THEN {"UnexpectedComputationFailure"} ELSE {})

Others == <<dataframe, cluster_number, knn_graph, dataframe_standardized,
            pos, labels_, ret, rows, fits, knn_calls>>

\* lines 61-63
TryWcss ==
    /\ pc = "wcss_try"
    /\ \E o \in Outcomes("WCSS") :
         IF o = "ok"
         THEN /\ wcss' = Append(wcss, Val("WCSS",
                           calculate_wcss(dataframe_standardized, labels_)))
              /\ pc' = "db_try"
              /\ UNCHANGED exc
         ELSE /\ exc' = o
              /\ pc' = "wcss_except"
              /\ UNCHANGED wcss
    /\ UNCHANGED <<silhouette_scores, calinski_harabasz_scores,
                   davies_bouldin_scores, stdout, causes>>
    /\ UNCHANGED Others

\* lines 64-66
ExceptWcss ==
    /\ pc = "wcss_except"
    /\ stdout' = Append(stdout, Line("WCSS", i))
    /\ wcss' = Append(wcss, NaN)
    /\ causes' = Append(causes, [metric |-> "WCSS", pos |-> pos, cause |-> exc])
    /\ exc' = "none"
    /\ pc' = "db_try"
    /\ UNCHANGED <<silhouette_scores, calinski_harabasz_scores,
                   davies_bouldin_scores>>
    /\ UNCHANGED Others

\* lines 68-71
TryDaviesBouldin ==
    /\ pc = "db_try"
    /\ \E o \in Outcomes("Davies-Bouldin") :
         IF o = "ok"
         THEN /\ davies_bouldin_scores' =
                   Append(davies_bouldin_scores,
                          Val("Davies-Bouldin",
                              LibScore(dataframe_standardized, labels_)))
              /\ pc' = "sil_try"
              /\ UNCHANGED exc
         ELSE /\ exc' = o
              /\ pc' = "db_except"
              /\ UNCHANGED davies_bouldin_scores
    /\ UNCHANGED <<wcss, silhouette_scores, calinski_harabasz_scores, stdout,
                   causes>>
    /\ UNCHANGED Others

\* a handler that prints nothing
ExceptDaviesBouldinSilent ==
    /\ pc = "db_except"
    /\ davies_bouldin_scores' = Append(davies_bouldin_scores, NaN)
    /\ causes' = Append(causes, [metric |-> "Davies-Bouldin", pos |-> pos,
                                 cause |-> exc])
    /\ exc' = "none"
    /\ pc' = "sil_try"
    /\ UNCHANGED <<wcss, silhouette_scores, calinski_harabasz_scores, stdout>>
    /\ UNCHANGED Others

\* one handler for the rest of the loop body: the two scores after
\* Davies-Bouldin are skipped when it fails
ExceptDaviesBouldinShared ==
    /\ pc = "db_except"
    /\ stdout' = Append(stdout, Line("Davies-Bouldin", i))
    /\ davies_bouldin_scores' = Append(davies_bouldin_scores, NaN)
    /\ silhouette_scores' = Append(silhouette_scores, NaN)
    /\ calinski_harabasz_scores' = Append(calinski_harabasz_scores, NaN)
    /\ causes' = Append(causes, [metric |-> "Davies-Bouldin", pos |-> pos,
                                 cause |-> exc])
    /\ exc' = "none"
    /\ pc' = "for"
    /\ pos' = pos + 1
    /\ UNCHANGED <<wcss, dataframe, cluster_number, knn_graph,
                   dataframe_standardized, labels_, ret, rows, fits,
                   knn_calls>>

\* lines 72-74
ExceptDaviesBouldin ==
    /\ pc = "db_except"
    /\ stdout' = Append(stdout, Line("Davies-Bouldin", i))
    /\ davies_bouldin_scores' = Append(davies_bouldin_scores, NaN)
    /\ causes' = Append(causes, [metric |-> "Davies-Bouldin", pos |-> pos,
                                 cause |-> exc])
    /\ exc' = "none"
    /\ pc' = "sil_try"
    /\ UNCHANGED <<wcss, silhouette_scores, calinski_harabasz_scores>>
    /\ UNCHANGED Others

\* lines 76-79
TrySilhouette ==
    /\ pc = "sil_try"
    /\ \E o \in Outcomes("Silhouette") :
         IF o = "ok"
         THEN /\ silhouette_scores' =
                   Append(silhouette_scores,
                          Val("Silhouette",
                              LibScore(dataframe_standardized, labels_)))
              /\ pc' = "ch_try"
              /\ UNCHANGED exc
         ELSE /\ exc' = o
              /\ pc' = "sil_except"
              /\ UNCHANGED silhouette_scores
    /\ UNCHANGED <<wcss, calinski_harabasz_scores, davies_bouldin_scores,
                   stdout, causes>>
    /\ UNCHANGED Others

\* a handler that appends 0 in place of np.nan
ExceptSilhouetteZero ==
    /\ pc = "sil_except"
    /\ stdout' = Append(stdout, Line("Silhouette", i))
    /\ silhouette_scores' = Append(silhouette_scores, Val("Silhouette", Zero))
    /\ causes' = Append(causes, [metric |-> "Silhouette", pos |-> pos,
                                 cause |-> exc])
    /\ exc' = "none"
    /\ pc' = "ch_try"
    /\ UNCHANGED <<wcss, calinski_harabasz_scores, davies_bouldin_scores>>
    /\ UNCHANGED Others

\* lines 80-82
ExceptSilhouette ==
    /\ pc = "sil_except"
    /\ stdout' = Append(stdout, Line("Silhouette", i))
    /\ silhouette_scores' = Append(silhouette_scores, NaN)
    /\ causes' = Append(causes, [metric |-> "Silhouette", pos |-> pos,
                                 cause |-> exc])
    /\ exc' = "none"
    /\ pc' = "ch_try"
    /\ UNCHANGED <<wcss, calinski_harabasz_scores, davies_bouldin_scores>>
    /\ UNCHANGED Others

\* lines 84-87; the loop body ends here, so the loop moves to its next item
TryCalinskiHarabasz ==
    /\ pc = "ch_try"
    /\ \E o \in Outcomes("Calinski-Harabasz") :
         IF o = "ok"
         THEN /\ calinski_harabasz_scores' =
                   Append(calinski_harabasz_scores,
                          Val("Calinski-Harabasz",
                              LibScore(dataframe_standardized, labels_)))
              /\ pc' = "for"
              /\ pos' = pos + 1
              /\ UNCHANGED exc
         ELSE /\ exc' = o
              /\ pc' = "ch_except"
              /\ UNCHANGED <<calinski_harabasz_scores, pos>>
    /\ UNCHANGED <<wcss, silhouette_scores, davies_bouldin_scores, stdout,
                   causes>>
    /\ UNCHANGED <<dataframe, cluster_number, knn_graph,
                   dataframe_standardized, labels_, ret, rows, fits,
                   knn_calls>>

\* a handler that only prints
ExceptCalinskiHarabaszNoAppend ==
    /\ pc = "ch_except"
    /\ stdout' = Append(stdout, Line("Calinski-Harabasz", i))
    /\ causes' = Append(causes, [metric |-> "Calinski-Harabasz", pos |-> pos,
                                 cause |-> exc])
    /\ exc' = "none"
    /\ pc' = "for"
    /\ pos' = pos + 1
    /\ UNCHANGED <<wcss, silhouette_scores, davies_bouldin_scores,
                   calinski_harabasz_scores>>
    /\ UNCHANGED <<dataframe, cluster_number, knn_graph,
                   dataframe_standardized, labels_, ret, rows, fits,
                   knn_calls>>

\* lines 88-90
ExceptCalinskiHarabasz ==
    /\ pc = "ch_except"
    /\ stdout' = Append(stdout, Line("Calinski-Harabasz", i))
    /\ calinski_harabasz_scores' = Append(calinski_harabasz_scores, NaN)
    /\ causes' = Append(causes, [metric |-> "Calinski-Harabasz", pos |-> pos,
                                 cause |-> exc])
    /\ exc' = "none"
    /\ pc' = "for"
    /\ pos' = pos + 1
    /\ UNCHANGED <<wcss, silhouette_scores, davies_bouldin_scores>>
    /\ UNCHANGED <<dataframe, cluster_number, knn_graph,
                   dataframe_standardized, labels_, ret, rows, fits,
                   knn_calls>>

\* the tuple in the order of the loop body
ReturnValueLoopOrder(w, s, c, d) == <<w, d, s, c>>

\* lines 92-93
ReturnValue(w, s, c, d) == <<w, s, c, d>>

Return ==
    /\ pc = "for"
    /\ pos > Len(cluster_number)
    /\ ret' = ReturnValue(wcss, silhouette_scores, calinski_harabasz_scores,
                          davies_bouldin_scores)
    /\ pc' = "returned"
    /\ UNCHANGED <<dataframe, cluster_number, knn_graph,
                   dataframe_standardized, pos, labels_, wcss,
                   silhouette_scores, calinski_harabasz_scores,
                   davies_bouldin_scores, stdout, exc, rows, fits, causes,
                   knn_calls>>

-----------------------------------------------------------------------------
(* plot_hierarchical_clustering_evaluation_curves (lines 96-140) *)

\* lines 106-107 unpack the tuple; lines 112-136 plot one list per axis
\* under the y label of the axis
Axes(t) ==
    LET wcss_l == t[1]
        silhouette_l == t[2]
        calinski_harabasz_l == t[3]
        davies_bouldin_l == t[4]
    IN  << [ylabel |-> "WCSS", y |-> wcss_l],
           [ylabel |-> "Silhouette", y |-> silhouette_l],
           [ylabel |-> "Calinski-Harabasz", y |-> calinski_harabasz_l],
           [ylabel |-> "Davies-Bouldin", y |-> davies_bouldin_l] >>

Plot ==
    /\ pc = "returned"
    /\ rows' = Axes(ret)
    /\ pc' = "plotted"
    /\ UNCHANGED <<dataframe, cluster_number, knn_graph,
                   dataframe_standardized, pos, labels_, wcss,
                   silhouette_scores, calinski_harabasz_scores,
                   davies_bouldin_scores, stdout, exc, ret, fits, causes,
                   knn_calls>>

-----------------------------------------------------------------------------
(* The sweep: a call of plot_hierarchical_clustering_evaluation_curves *)

SampleSizes == N_NEIGHBORS .. (N_NEIGHBORS + MaxExtraSamples)

\* one column holding the values 1, 2, 0, 1, 2, 0, ...
Dataset(n) == [j \in 1..n |-> <<j % 3>>]

\* cluster counts: one cluster, two clusters, as many clusters as the
\* largest dataset has samples, and one more than that
CountSet == {1, 2, N_NEIGHBORS + MaxExtraSamples,
             N_NEIGHBORS + MaxExtraSamples + 1}

SeqsUpTo(S, n) == UNION {[1..m -> S] : m \in 0..n}

Init ==
    /\ dataframe \in {Dataset(n) : n \in SampleSizes}
    /\ cluster_number \in SeqsUpTo(CountSet, MaxSweep)
    /\ knn_graph = NoGraph
    /\ dataframe_standardized = <<>>
    /\ pos = 0
    /\ labels_ = <<>>
    /\ wcss = <<>>
    /\ silhouette_scores = <<>>
    /\ calinski_harabasz_scores = <<>>
    /\ davies_bouldin_scores = <<>>
    /\ stdout = <<>>
    /\ exc = "none"
    /\ pc = "knn"
    /\ ret = <<>>
    /\ rows = <<>>
    /\ fits = <<>>
    /\ causes = <<>>
    /\ knn_calls = 0

Next ==
    \/ KneighborsGraph
    \/ Standardize
    \/ FitPredict
    \/ TryWcss
    \/ ExceptWcss
    \/ TryDaviesBouldin
    \/ ExceptDaviesBouldin
    \/ TrySilhouette
    \/ ExceptSilhouette
    \/ TryCalinskiHarabasz
    \/ ExceptCalinskiHarabasz
    \/ Return
    \/ Plot

Spec == Init /\ [][Next]_vars

-----------------------------------------------------------------------------
(* calculate_wcss on its own: any points, any labels *)

\* coordinates of the points (two columns)
Coords == {0, 1}

InitWcss ==
    /\ \E n \in 1..MaxPoints :
         /\ dataframe_standardized \in [1..n -> [1..2 -> Coords]]
         /\ labels_ \in [1..n -> 0..MaxLabel]
    /\ dataframe = <<>>
    /\ cluster_number = <<>>
    /\ knn_graph = NoGraph
    /\ pos = 0
    /\ wcss = <<>>
    /\ silhouette_scores = <<>>
    /\ calinski_harabasz_scores = <<>>
    /\ davies_bouldin_scores = <<>>
    /\ stdout = <<>>
    /\ exc = "none"
    /\ pc = "wcss_call"
    /\ ret = <<>>
    /\ rows = <<>>
    /\ fits = <<>>
    /\ causes = <<>>
    /\ knn_calls = 0

CallCalculateWcss ==
    /\ pc = "wcss_call"
    /\ ret' = calculate_wcss(dataframe_standardized, labels_)
    /\ pc' = "wcss_ret"
    /\ UNCHANGED <<dataframe, cluster_number, knn_graph,
                   dataframe_standardized, pos, labels_, wcss,
                   silhouette_scores, calinski_harabasz_scores,
                   davies_bouldin_scores, stdout, exc, rows, fits, causes,
                   knn_calls>>

NextWcss == CallCalculateWcss

SpecWcss == InitWcss /\ [][NextWcss]_vars

-----------------------------------------------------------------------------
(* Vocabulary of the properties *)

List(m) ==
    CASE m = "WCSS" -> wcss
      [] m = "Davies-Bouldin" -> davies_bouldin_scores
      [] m = "Silhouette" -> silhouette_scores
      [] m = "Calinski-Harabasz" -> calinski_harabasz_scores

\* the order in which the loop body computes the metrics
Rank(m) ==
    CASE m = "WCSS" -> 1
      [] m = "Davies-Bouldin" -> 2
      [] m = "Silhouette" -> 3
      [] m = "Calinski-Harabasz" -> 4

\* the order of the documented return value
Documented == <<"WCSS", "Silhouette", "Calinski-Harabasz", "Davies-Bouldin">>

\* how many metrics the current iteration has finished
StepsDone ==
    CASE pc \in {"db_try", "db_except"} -> 1
      [] pc \in {"sil_try", "sil_except"} -> 2
      [] pc \in {"ch_try", "ch_except"} -> 3
      [] OTHER -> 0

\* how many positions of the sweep metric m has dealt with
Completed(m) ==
    IF pos = 0 THEN 0
    ELSE (pos - 1) + (IF Rank(m) <= StepsDone THEN 1 ELSE 0)

\* metric m raised at position j
Failed(m, j) ==
    \E a \in DOMAIN causes : causes[a].metric = m /\ causes[a].pos = j

FailedWith(m, j, c) ==
    \E a \in DOMAIN causes :
        causes[a].metric = m /\ causes[a].pos = j /\ causes[a].cause = c

\* what position j of metric m's list holds, given only whether m itself
\* raised there and the labels fitted there
Expected(m, j) ==
    IF Failed(m, j) THEN NaN
    ELSE Score(m, dataframe_standardized, fits[j].labels)

Returned == pc \in {"returned", "plotted"}

\* between two iterations of the loop (the last of these moments is the one
\* before the return statement), or stopped by an exception
AtLoopHead == pc \in {"for", "raised"}

-----------------------------------------------------------------------------
(* C1 *)

\* C1: whenever compute_metrics returns, the returned tuple holds four
\* sequences, each as long as cluster_number, whatever failed on the way.
C1_SameLength ==
    Returned =>
        /\ Len(ret) = 4
        /\ \A r \in 1..4 : Len(ret[r]) = Len(cluster_number)

\* a returned sweep of two counts in which metrics failed at both
C1_Witness ==
    /\ pc = "returned"
    /\ Len(cluster_number) = 2
    /\ \E a, b \in DOMAIN causes :
         /\ causes[a].pos = 1 /\ causes[a].metric = "Calinski-Harabasz"
         /\ causes[b].pos = 2 /\ causes[b].metric = "WCSS"

-----------------------------------------------------------------------------
(* C2 *)

\* C2: entry j of each returned sequence is the value or the sentinel
\* computed from the clustering fitted for the j-th count of cluster_number
\* as given, and every printed line names the count of its position.
C2_PositionalAlignment ==
    /\ \A j \in DOMAIN fits :
         /\ fits[j].n_clusters = cluster_number[j]
         /\ ~fits[j].raised =>
                Cardinality(Unique(fits[j].labels)) = cluster_number[j]
    /\ \A a \in DOMAIN stdout :
         stdout[a].point = cluster_number[causes[a].pos]
    /\ pc = "returned" =>
         \A r \in 1..4 : \A j \in 1..Len(cluster_number) :
             ret[r][j] \in {NaN, Score(Documented[r], dataframe_standardized,
                                       fits[j].labels)}

\* a returned sweep over a decreasing sequence, with a sentinel at the
\* second position and a value at the first
C2_Witness ==
    /\ pc = "returned"
    /\ cluster_number = <<2, 1>>
    /\ ret[2][2] = NaN
    /\ ret[2][1] # NaN

-----------------------------------------------------------------------------
(* C3 *)

\* C3: at every moment each metric's list holds one entry for each position
\* the metric has dealt with, and after every iteration the entry at
\* position j is decided by the labels fitted at j and by whether that
\* metric itself raised at j: no other metric's failure and no failure at
\* another position enters it.
C3_FailureIsolation ==
    \A m \in Metrics :
        /\ Len(List(m)) = Completed(m)
        /\ AtLoopHead =>
              \A j \in 1..Len(List(m)) : List(m)[j] = Expected(m, j)

\* Davies-Bouldin alone failed at the first of two positions, and every
\* other entry of the returned sweep is a value
C3_Witness ==
    /\ pc = "returned"
    /\ Len(cluster_number) = 2
    /\ Len(causes) = 1
    /\ causes[1].metric = "Davies-Bouldin"
    /\ causes[1].pos = 1
    /\ davies_bouldin_scores[1] = NaN
    /\ silhouette_scores[1] # NaN
    /\ davies_bouldin_scores[2] # NaN

-----------------------------------------------------------------------------
(* C4 *)

Handler(state) ==
    CASE state = "wcss_try" -> "wcss_except"
      [] state = "db_try" -> "db_except"
      [] state = "sil_try" -> "sil_except"
      [] state = "ch_try" -> "ch_except"
      [] OTHER -> "none"

\* the step of a handler: one sentinel on its own list, nothing on the
\* others, one line naming the metric and the count, and on to the next step
Recovers(m, next) ==
    /\ List(m)' = Append(List(m), NaN)
    /\ \A o \in Metrics \ {m} : List(o)' = List(o)
    /\ stdout' = Append(stdout, [metric |-> m, point |-> cluster_number[pos]])
    /\ pc' = next
    /\ pos' = IF next = "for" THEN pos + 1 ELSE pos

\* C4: a metric that raises at count k is caught by its own handler, which
\* appends exactly one sentinel to that metric's list, prints one line naming
\* the metric and k, and goes on with the next metric or the next count; no
\* metric failure ends the sweep.
C4_MetricFailureRecovered ==
    [][ /\ (exc' # "none" /\ Handler(pc) # "none") => pc' = Handler(pc)
        /\ pc = "wcss_except" => Recovers("WCSS", "db_try")
        /\ pc = "db_except" => Recovers("Davies-Bouldin", "sil_try")
        /\ pc = "sil_except" => Recovers("Silhouette", "ch_try")
        /\ pc = "ch_except" => Recovers("Calinski-Harabasz", "for")
        /\ pc' = "raised" => pc \in {"knn", "for"} ]_vars

\* all four metrics failed at the first count and the second count was
\* still swept
C4_Witness ==
    /\ pc = "returned"
    /\ Len(cluster_number) = 2
    /\ \A m \in Metrics : Failed(m, 1)
    /\ Len(stdout) = 4
    /\ \A m \in Metrics : List(m)[2] # NaN

-----------------------------------------------------------------------------
(* C5 *)

\* C5: a clustering that fails at position j is recovered there: the sweep
\* is not ended by it and all four lists get the sentinel at position j.
C5_ClusteringFailureRecovered ==
    \A j \in DOMAIN fits :
        fits[j].raised =>
            /\ pc # "raised"
            /\ \A m \in Metrics :
                 Len(List(m)) >= j => List(m)[j] = NaN

-----------------------------------------------------------------------------
(* C6 *)

\* C6: kneighbors_graph is called once, before the data are standardized
\* and before any clustering; with no more samples than neighbours the call
\* raises, and then nothing is standardized, fitted, computed, printed or
\* returned.
C6_ConnectivityFirstAndFatal ==
    /\ knn_calls <= 1
    /\ pc # "knn" => knn_calls = 1
    /\ (dataframe_standardized # <<>> \/ fits # <<>>) =>
           /\ knn_calls = 1
           /\ knn_graph = [n_samples |-> n_samples,
                           n_neighbors |-> N_NEIGHBORS]
    /\ n_samples <= N_NEIGHBORS =>
           /\ pc \in {"knn", "raised"}
           /\ pc = "raised" => exc = "InsufficientSamples"
           /\ knn_graph = NoGraph
           /\ dataframe_standardized = <<>>
           /\ fits = <<>>
           /\ \A m \in Metrics : List(m) = <<>>
           /\ stdout = <<>>
           /\ ret = <<>>
           /\ rows = <<>>

\* ten samples: the call has raised
C6_Witness ==
    /\ n_samples = N_NEIGHBORS
    /\ pc = "raised"
    /\ exc = "InsufficientSamples"
    /\ cluster_number # <<>>

-----------------------------------------------------------------------------
(* C7 *)

\* the squared Euclidean distance of point h to the mean of the points that
\* carry its label
DistanceToOwnMean(X, labels, h) ==
    LET M == {g \in DOMAIN X : labels[g] = labels[h]}
        c == Cardinality(M)
        mean(d) == Rat(ISum([g \in 1..Len(X) |->
                                IF g \in M THEN X[g][d] ELSE 0], Len(X)), c)
        sq(d) == LET diff == RSub(<<X[h][d], 1>>, mean(d))
                 IN  RMul(diff, diff)
        D == Len(X[h])
    IN  RSum([d \in 1..D |-> sq(d)], D)

IdenticalWithinClusters(X, labels) ==
    \A g, h \in DOMAIN X : labels[g] = labels[h] => X[g] = X[h]

-----------------------------------------------------------------------------
(* C8 *)

Degenerate(j) ==
    ~fits[j].raised /\ Cardinality(Unique(fits[j].labels)) < 2

\* C8: where the fitted labels have fewer than 2 distinct values, the three
\* validity scores hold the sentinel; once the iteration is over, the WCSS
\* entry there is the finite value calculate_wcss computes for those labels
\* (a sentinel stands there only if calculate_wcss itself raised something
\* unexpected, never because the score is undefined), and every entry at
\* every other position is what its own labels and its own failure make it.
C8_DegenerateClustering ==
    \A j \in DOMAIN fits :
        Degenerate(j) =>
            /\ \A m \in Metrics \ {"WCSS"} :
                 j <= Len(List(m)) => List(m)[j] = NaN
            /\ ~FailedWith("WCSS", j, "MetricUndefined")
            /\ (AtLoopHead /\ j <= Len(wcss)) =>
                 /\ wcss[j] = IF Failed("WCSS", j) THEN NaN
                              ELSE Val("WCSS",
                                       calculate_wcss(dataframe_standardized,
                                                      fits[j].labels))
                 /\ \A m \in Metrics : \A h \in 1..Len(List(m)) :
                      h # j => List(m)[h] = Expected(m, h)

\* one cluster at the second of two positions: three sentinels and a finite
\* WCSS there, four values at the first position
C8_Witness ==
    /\ pc = "returned"
    /\ cluster_number = <<2, 1>>
    /\ Degenerate(2)
    /\ wcss[2] # NaN
    /\ silhouette_scores[2] = NaN
    /\ calinski_harabasz_scores[2] = NaN
    /\ davies_bouldin_scores[2] = NaN
    /\ \A m \in Metrics : List(m)[1] # NaN

-----------------------------------------------------------------------------
(* C9 *)

\* C9 as claimed: two failures with different causes never print the same
\* line.
C9_DiagnosticDistinguishesCause ==
    \A a, b \in DOMAIN stdout :
        causes[a].cause # causes[b].cause => stdout[a] # stdout[b]

\* C9 as amended: the line printed for a failure is made of the metric's
\* name and the count alone, whatever the cause, and after either cause the
\* metric's list holds the sentinel at the position of the failure.
C9_DiagnosticNamesMetricAndCount ==
    \A a \in DOMAIN stdout :
        /\ causes[a].cause \in {"MetricUndefined",
                                "UnexpectedComputationFailure"}
        /\ stdout[a] = [metric |-> causes[a].metric,
                        point |-> cluster_number[causes[a].pos]]
        /\ List(causes[a].metric)[causes[a].pos] = NaN

\* the silhouette score failed at the same count once for each cause and
\* printed the same line twice
C9_Witness ==
    \E a, b \in DOMAIN stdout :
        /\ causes[a].metric = "Silhouette"
        /\ causes[a].cause = "MetricUndefined"
        /\ causes[b].cause = "UnexpectedComputationFailure"
        /\ stdout[a] = stdout[b]
        /\ pc = "returned"

-----------------------------------------------------------------------------
(* C10 *)

\* C10: the loop fills the lists in the order WCSS, Davies-Bouldin,
\* silhouette, Calinski-Harabasz; the returned tuple is in the documented
\* order, each of its sequences holding only sentinels and values of its own
\* metric; and each axis of the figure plots the sequence of the metric its
\* y label names.
C10_DocumentedOrder ==
    /\ Len(wcss) >= Len(davies_bouldin_scores)
    /\ Len(davies_bouldin_scores) >= Len(silhouette_scores)
    /\ Len(silhouette_scores) >= Len(calinski_harabasz_scores)
    /\ Returned =>
         \A r \in 1..4 :
            /\ ret[r] = List(Documented[r])
            /\ \A j \in DOMAIN ret[r] :
                 ret[r][j] = NaN \/ ret[r][j].metric = Documented[r]
    /\ pc = "plotted" =>
         /\ Len(rows) = 4
         /\ \A r \in 1..4 :
              /\ rows[r].ylabel = Documented[r]
              /\ rows[r].y = List(rows[r].ylabel)
              /\ \A j \in DOMAIN rows[r].y :
                   rows[r].y[j] = NaN \/ rows[r].y[j].metric = rows[r].ylabel

\* a plotted sweep in which every metric has a value
C10_Witness ==
    /\ pc = "plotted"
    /\ cluster_number = <<2>>
    /\ \A r \in 1..4 : rows[r].y[1] # NaN

=============================================================================
